---- MODULE Spec2Model ----
(***************************************************************************)
(* Homeostatic decision-making core of src/model.c (Khepera IV robot).     *)
(*                                                                         *)
(* The C floats are modelled as exact fixed-point integers:                *)
(*   - need variables, deficits, motivations: One units per 1.0            *)
(*   - cues: CueOne units per 1.0                                          *)
(*   - speed tables and damage levels: CsOne units per 1.0                 *)
(*   - wheel velocities: VelOne units per 1.0                              *)
(*   - the local `mean` of the two mean functions: MeanOne units per 1.0   *)
(* A float that was computed from an uninitialized local is one of the     *)
(* values Garbage lets the build leave in the local: NaNv stands for NaN,  *)
(* PosHuge for +Inf and NegHuge for -Inf.                                  *)
(***************************************************************************)
EXTENDS Integers, Sequences, FiniteSets, TLC

\* ------------------------------------------------------------ constants
SPEED == 200
TIME == 100000
MAX_DIST == 500
MIN_DIST == 80

One == 200000000
CueOne == 16800
CsOne == 10000000
VelOne == 1000
MeanOne == 100

NaNv == -2147483647
PosHuge == 2000000000
NegHuge == -2000000000

\* M_PI to four decimals, in 1/10000
PiE4 == 31416
\* float ray = 6 in circ_damage
ray == 6

\* ------------------------------------------------------------ bounds
\* damage_animation threads created and not yet running are counted up to
\* MaxTasks, running ones up to MaxRunning: a count at its bound stands for
\* that many or more
MaxTasks == 2
MaxRunning == 1
\* largest motivation sample handed to winner_takes_all in SpecFn
MaxMot == 3
\* raw readings 0..MAX_DIST+RawOver are handed to the sensor scaling in SpecFn
RawOver == 3

\* calls of stop_moving() are counted up to this many: a count of MaxStops
\* stands for MaxStops or more
MaxStops == 2
\* the negative finite value an uninitialized float is sampled at is -GarbageMag
GarbageMag == 1

Chan == 0..7
Adj == 0..6

Abs(x) == IF x < 0 THEN -x ELSE x

Min(a, b) == IF a < b THEN a ELSE b

\* C integer division and float-to-int conversion truncate toward zero
TruncDiv(a, b) == IF a >= 0 THEN a \div b ELSE -((-a) \div b)

\* a float division, rounded to the nearest unit of the fixed-point grid
RoundDiv(a, b) ==
    LET q == Abs(a) \div b
        r == Abs(a) % b
        m == IF 2 * r >= b THEN q + 1 ELSE q
    IN  IF a >= 0 THEN m ELSE -m

RECURSIVE SumTo(_, _)
SumTo(f, n) == IF n < 0 THEN 0 ELSE f[n] + SumTo(f, n - 1)

\* ------------------------------------------------------------ arbitration
\* the C relational operators on floats: any comparison with NaN is false
FGt(a, b) == a # NaNv /\ b # NaNv /\ a > b

\* winner_takes_all with the third need left out of the comparisons
winner_takes_all_no_integrity(m1, m2, m3) ==
    IF FGt(m1, m2) THEN 1
    ELSE IF FGt(m2, m1) THEN 2
    ELSE -1

winner_takes_all(m1, m2, m3) ==
    IF FGt(m1, m2) /\ FGt(m1, m3) THEN 1
    ELSE IF FGt(m2, m1) /\ FGt(m2, m3) THEN 2
    ELSE IF FGt(m3, m1) /\ FGt(m3, m2) THEN 3
    ELSE -1

\* ------------------------------------------------------------ sensors
\* sensval = (Buffer[i*2] | Buffer[i*2+1]<<8): lo, hi are the bytes 0..255 the
\* library wrote; Buffer is char[], whose signedness the build decides.
AsChar(b, signed) == IF signed /\ b >= 128 THEN b - 256 ELSE b

Decode(lo, hi, signed) ==
    IF AsChar(lo, signed) < 0
    THEN AsChar(lo, signed)
    ELSE AsChar(hi, signed) * 256 + lo

\* the clamp and rescale of one channel in get_sensors
ScaleSensor(sensval) ==
    IF sensval > MAX_DIST THEN MAX_DIST
    ELSE IF sensval < MIN_DIST THEN 0
    ELSE (sensval - MIN_DIST) \div 2

\* one channel of get_sensors from the raw 16-bit reading the library stored
SensorOf(raw, signed) == ScaleSensor(Decode(raw % 256, raw \div 256, signed))

\* ------------------------------------------------------------ floats
\* what the uninitialized local `float mean` may hold when it is first read, in
\* MeanOne units: the zero of a fresh stack page, the float the caller left in
\* the register the local is given (left), the mean the previous call left in
\* the stack slot of the local (prev), a negative finite value, an infinity of
\* either sign, or NaN
Garbage(left, prev) ==
    {0, left, prev, -GarbageMag * MeanOne, PosHuge, NegHuge, NaNv}

\* the register compute_deficit() wrote last holds def_integrity
Leftover(def) == TruncDiv(def, One \div MeanOne)

IsSpecial(x) == x \in {NaNv, PosHuge, NegHuge}

\* the mean get_mean_normalized(sensors, 8, MIN_DIST, MAX_DIST) ended with when
\* it returned cue: mean = cue*(max-min) + min
PrevMean(cue) ==
    IF IsSpecial(cue) THEN cue
    ELSE RoundDiv(cue * (MAX_DIST - MIN_DIST) * MeanOne, CueOne) + MIN_DIST * MeanOne

\* a * num / den without leaving 32 bits, truncated toward zero
MulDiv(a, num, den) ==
    LET sgn == IF (a < 0) = (num < 0) THEN 1 ELSE -1
        q   == Abs(a) \div den
        r   == Abs(a) % den
    IN  sgn * (q * Abs(num) + (r * Abs(num)) \div den)

\* get_mean_normalized(table, size, min, max), mean0 the initial content of
\* the local `mean`; the result is in CueOne units
get_mean_normalized(table, size, min, max, mean0) ==
    IF IsSpecial(mean0) THEN mean0
    ELSE RoundDiv(MulDiv(mean0 + SumTo(table, size - 1) * MeanOne, CueOne, size)
                  - min * CueOne * MeanOne, (max - min) * MeanOne)

\* get_mean_normalized_f(table, size, min, max) on a table in CsOne units;
\* a float division by zero gives an infinity or NaN. The comparisons below
\* read the sign of num: the special values carry theirs. A finite start that
\* leaves the CsOne range keeps its sign
get_mean_normalized_f(table, size, min, max, mean0) ==
    IF mean0 = NaNv THEN NaNv
    ELSE LET num == IF IsSpecial(mean0) THEN mean0
                    ELSE IF Abs(mean0) > PosHuge \div (CsOne \div MeanOne)
                    THEN (IF mean0 > 0 THEN PosHuge - 1 ELSE NegHuge + 1)
                    ELSE TruncDiv(mean0 * (CsOne \div MeanOne)
                                  + SumTo(table, size - 1), size) - min
         IN  IF max - min = 0
             THEN (IF num > 0 THEN PosHuge ELSE IF num < 0 THEN NegHuge ELSE NaNv)
             ELSE IF IsSpecial(num) THEN num
             ELSE MulDiv(num, CsOne, max - min)

\* a motivation that leaves the cue out
MotivationNoCue(def, cue) == def

\* def + (def * cue) of compute_motivations; 0 * Inf is NaN
Motivation(def, cue) ==
    IF cue = NaNv THEN NaNv
    ELSE IF cue \in {PosHuge, NegHuge}
         THEN (IF def = 0 THEN NaNv
               ELSE IF (def > 0) = (cue = PosHuge) THEN PosHuge ELSE NegHuge)
    ELSE def + MulDiv(def, cue, CueOne)

\* 0.06 and 0.055 of compute_cues
CueEnergy == (6 * CueOne) \div 100
CueTegument == (55 * CueOne) \div 1000

\* an Energy decay of 0.0004, slower than Tegument's
DecayEnergySlow == (One \div 10000) * 4

\* 0.004 and 0.0015 of decrease_physoligical_variables
DecayEnergy == (One \div 1000) * 4
DecayTegument == (One \div 10000) * 15

\* level * 0.01 of induce_damage, from CsOne units to One units
DamageOf(level) == TruncDiv(level, (100 * CsOne) \div One)

\* (M_PI*ray)/TIME of circ_damage, rounded to the CsOne grid
CircBase == (PiE4 * ray * (CsOne \div TIME) + 5000) \div 10000

\* ------------------------------------------------------------ damage heuristics
\* first loop of circ_damage: channel i against the history of channel i-1
CircSet(cs, s, ps) ==
    [i \in Adj |->
        IF i >= 1 /\ 2 * Abs(s[i] - ps[i - 1]) < s[i] THEN CircBase ELSE cs[i]]

\* abs() is the integer abs: its float argument is truncated to int first
CircClose(a, b) ==
    LET t == Abs(TruncDiv(a - b, CsOne)) * CsOne
    IN  t < a - t

\* one iteration of the second loop of circ_damage
CircSpreadStep(cs, i) ==
    IF CircClose(cs[i], cs[i - 1])
    THEN [cs EXCEPT ![i - 1] = 2 * cs[i - 1], ![i] = 2 * cs[i]]
    ELSE cs

\* second loop of circ_damage, i = from .. 6, on the table as updated so far;
\* v is the table an iteration starts from, evaluated once
RECURSIVE CircSpread(_, _)
CircSpread(cs, from) ==
    IF from > 6 THEN cs
    ELSE CHOOSE r \in {CircSpread(CircSpreadStep(v, from), from + 1) : v \in {cs}} : TRUE

\* the circ_speed table circ_damage leaves before it induces damage
CircTable(cs, s, ps) == CircSpread(CircSet(cs, s, ps), 1)

\* diff[i]/TIME is an integer division, then converted to float
SpeedStep(old, diff) ==
    IF 100 * Abs(diff) > 5 * (MAX_DIST - MIN_DIST)
    THEN TruncDiv(old + TruncDiv(diff, TIME) * CsOne, 2)
    ELSE 0

\* first loop of speed_damage
SpeedTable(sp, s, ps) == [i \in Chan |-> SpeedStep(sp[i], s[i] - ps[i])]

\* mean > 0.05*(1.0/8.0), mean normalized with max = MAX_DIST/TIME (integer)
SpeedMeanHigh(sp, mean0) ==
    FGt(get_mean_normalized_f(sp, 8, 0, TruncDiv(MAX_DIST, TIME) * CsOne, mean0),
        (5 * CsOne) \div 800)

\* the levels speed_damage induces, in channel order: speed[i] > 0.05
RECURSIVE SpeedLevels(_, _)
SpeedLevels(sp, i) ==
    IF i > 7 THEN <<>>
    ELSE (IF sp[i] > (5 * CsOne) \div 100 THEN <<sp[i]>> ELSE <<>>) \o SpeedLevels(sp, i + 1)

\* what circ_damage returns: its only return statement is return 0
CircReturn == 0

\* check_if_damage: circ_damage() || speed_damage(), cr and sr what the two
\* returned (sr = -1: speed_damage was not called)
CheckIfDamage(cr, sr) == IF cr # 0 \/ sr = 1 THEN 1 ELSE 0

\* ------------------------------------------------------------ behaviours
\* int can_eat = 0 and int can_groom = 0 of the behavioural groups
can_eat == 0
can_groom == 0

\* float weight_l[8], weight_r[8] of avoid
weight_l == [i \in Chan |-> 0]
weight_r == [i \in Chan |-> 0]

\* (sensors[i]-min)/(max-min) of avoid: an integer division, min = 0, max = 1023
AvoidNorm(s) == [i \in Chan |-> TruncDiv(s[i] - 0, 1023 - 0)]

\* left_speed += weight[i]*normalized_sensors[i] over the 8 channels, then /= 8
AvoidWheel(old, weight, s) ==
    TruncDiv(old + SumTo([i \in Chan |-> weight[i] * AvoidNorm(s)[i] * VelOne], 7), 8)

\* compute_speed whose default case falls into the approach behaviour
WheelsAfterNoStop(bhv, l, r, s) ==
    IF bhv = 3 THEN <<AvoidWheel(l, weight_l, s), AvoidWheel(r, weight_r, s)>>
    ELSE <<(8 * VelOne) \div 10, (8 * VelOne) \div 10>>

\* the wheel globals compute_speed(bhv) leaves: only avoid and the default
\* case write them
WheelsAfter(bhv, l, r, s) ==
    IF bhv = 1 \/ bhv = 2 THEN <<l, r>>
    ELSE IF bhv = 3 THEN <<AvoidWheel(l, weight_l, s), AvoidWheel(r, weight_r, s)>>
    ELSE <<0, 0>>

Approach == <<(8 * VelOne) \div 10, (8 * VelOne) \div 10>>

\* the move() calls compute_speed(bhv) makes, in order
GroupMoves(bhv, l, r, s) ==
    IF bhv = 1 THEN <<Approach>>
    ELSE IF bhv = 2
         THEN (IF can_groom # 0 THEN <<<<-VelOne, VelOne>>, <<VelOne, -VelOne>>>>
               ELSE <<>>) \o <<Approach>>
    ELSE IF bhv = 3 THEN <<WheelsAfter(3, l, r, s)>>
    ELSE <<>>

\* an eat() that is always eligible
EnergyAfterAlwaysEat(bhv, e) == IF bhv = 1 THEN e + (5 * One) \div 100 ELSE e

\* eat() and groom() both add 0.05 to var_energy, when eligible
EnergyAfter(bhv, e) ==
    IF (bhv = 1 /\ can_eat # 0) \/ (bhv = 2 /\ can_groom # 0)
    THEN e + (5 * One) \div 100 ELSE e

\* the move() calls of one iteration: those of compute_speed(bhv), then
\* move(left_speed, right_speed) of model()
TickMoves(bhv, l, r, s) ==
    GroupMoves(bhv, l, r, s) \o <<WheelsAfter(bhv, l, r, s)>>

\* kh4_set_speed(motor_left*SPEED, motor_right*SPEED): the int arguments
MotorOf(m) == <<TruncDiv(m[1] * SPEED, VelOne), TruncDiv(m[2] * SPEED, VelOne)>>

\* the keys run() can read: the six of its switch, and any other one
Keys == {"z", "q", "s", "d", "e", "a", "x"}

\* the move() call of run() for a direction key
KeyMove(key) ==
    CASE key = "z" -> <<VelOne, VelOne>>
      [] key = "q" -> <<-VelOne, VelOne>>
      [] key = "s" -> <<-VelOne, -VelOne>>
      [] key = "d" -> <<VelOne, -VelOne>>

\* a stop_moving that leaves the wheels at full speed
StopCommandFull == <<SPEED, SPEED>>

\* stop_moving(): kh4_set_speed(0, 0)
StopCommand == <<0, 0>>

\* ------------------------------------------------------------ environment
\* the raw 16-bit readings kh4_proximity_ir stores, per scenario and per call
ZeroFrame == [i \in Chan |-> 0]
MidFrame == [i \in Chan |-> 290]
SpikeFrame == [i \in Chan |-> IF i = 3 THEN 372 ELSE 290]
EdgeFrame == [i \in Chan |-> <<79, 80, 81, 499, 500, 501, 1023, 290>>[i + 1]]
OverFrame == [i \in Chan |-> 600]

Scenarios == {"A", "B", "C", "Q"}

RawAt(sc, k) ==
    CASE sc = "A" -> IF k <= 10 THEN MidFrame ELSE ZeroFrame
      [] sc = "B" -> IF k = 3 THEN SpikeFrame
                     ELSE IF k <= 5 THEN MidFrame ELSE ZeroFrame
      [] sc = "C" -> IF k <= 2 THEN MidFrame
                     ELSE IF k = 3 THEN EdgeFrame
                     ELSE IF k = 4 THEN OverFrame ELSE ZeroFrame
      [] OTHER    -> ZeroFrame

\* the signedness of char shows only on a byte of 128 or more
SignMatters(sc) ==
    \E k \in 0..12 : \E i \in Chan :
        RawAt(sc, k)[i] % 256 >= 128 \/ RawAt(sc, k)[i] \div 256 >= 128

\* ------------------------------------------------------------ state
VARIABLES
    pc,             \* where main() is: start, then in model(): loop, induce, speed,
                    \* finish, print, death, dying, done; in run(): run; or exit
    argv1,          \* argv[1]: -m, -r, or anything else (-x)
    scenario,       \* which sequence of raw frames the sensors deliver
    char_signed,    \* whether char is signed in this build
    ticks,          \* loop iterations started so far
    iterator,       \* int iterator of model()
    var_energy, var_tegument, var_integrity,
    def_energy, def_tegument, def_integrity,
    cue_energy, cue_tegument, cue_integrity,
    mot_energy, mot_tegument, mot_integrity,
    secure_led_animation,   \* _secure_led_animation
    created,        \* damage_animation threads created and not yet running
    running,        \* damage_animation threads between their two writes of the flag
    prev_sensors, sensors, speed, circ_speed,
    left_speed, right_speed,
    pending,        \* levels the running heuristic has still to pass to induce_damage
    phase,          \* the heuristic that is inducing: circ or speed
    behaviral,      \* int behaviral of model(): the last arbitration result
    moves,          \* the move() calls of the last pass of the loop of model() or
                    \* of run(), in order
    motor,          \* the last arguments of kh4_set_speed
    mode,           \* the last kh4_SetMode
    stops, deaths,  \* calls of stop_moving() and death_animation()
    e0, t0, i0,     \* the need variables when the current tick began
    induced,        \* sum of DamageOf(level) over this tick's induce_damage calls
    speed_ret,      \* what speed_damage returned in this tick (-1: not yet run)
    speed_calls,    \* induce_damage calls speed_damage made in this tick
    check_ret,      \* what check_if_damage returned in this tick (-1: not yet)
    all_mid,        \* every frame read so far was MidFrame
    fn_arg, fn_res  \* SpecFn: the input and the result of a pure function

needs == <<var_energy, var_tegument, var_integrity>>
derived == <<def_energy, def_tegument, def_integrity, cue_energy, cue_tegument,
             cue_integrity, mot_energy, mot_tegument, mot_integrity>>
tasks == <<secure_led_animation, created, running>>
tables == <<prev_sensors, sensors, speed, circ_speed>>
wheels == <<left_speed, right_speed>>
actuation == <<moves, motor, mode, stops, deaths>>
tickghost == <<e0, t0, i0, induced, speed_ret, speed_calls, check_ret>>
launch == <<scenario, char_signed, argv1>>
env == <<launch, all_mid>>
fn == <<fn_arg, fn_res>>

vars == <<pc, ticks, iterator, needs, derived, tasks, tables, wheels, pending,
          phase, behaviral, actuation, tickghost, env, fn>>

\* the globals as the C initializers leave them
InitProgram ==
    /\ pc = "start"
    /\ ticks = 0
    /\ iterator = 0
    /\ var_energy = One /\ var_tegument = One /\ var_integrity = One
    /\ def_energy = One /\ def_tegument = One /\ def_integrity = One
    /\ cue_energy = CueOne /\ cue_tegument = CueOne /\ cue_integrity = CueOne
    /\ mot_energy = One /\ mot_tegument = One /\ mot_integrity = One
    /\ secure_led_animation = 0
    /\ created = 0 /\ running = 0
    /\ prev_sensors = [i \in Chan |-> 0]
    /\ sensors = [i \in Chan |-> 0]
    /\ speed = [i \in Chan |-> 0]
    /\ circ_speed = [i \in Adj |-> 0]
    /\ left_speed = 0 /\ right_speed = 0
    /\ pending = <<>>
    /\ phase = "none"
    /\ behaviral = 0
    /\ moves = <<>>
    /\ motor = <<0, 0>>
    /\ mode = "none"
    /\ stops = 0 /\ deaths = 0
    /\ e0 = One /\ t0 = One /\ i0 = One
    /\ induced = 0 /\ speed_ret = -1 /\ speed_calls = 0
    /\ check_ret = -1
    /\ all_mid = TRUE

Init ==
    /\ InitProgram
    /\ argv1 \in {"-m", "-r", "-x"}
    \* only model() reads the sensors
    /\ scenario \in (IF argv1 = "-m" THEN Scenarios ELSE {"Q"})
    /\ char_signed \in (IF SignMatters(scenario) THEN BOOLEAN ELSE {FALSE})
    /\ fn_arg = <<>>
    /\ fn_res = <<>>

\* get_sensors(): the frame of the k-th call
Frame(k) == [i \in Chan |-> SensorOf(RawAt(scenario, k)[i], char_signed)]

\* a loop condition that lets a need of exactly 0 pass
LoopConditionOrEqual ==
    (var_energy >= 0) /\ (var_tegument >= 0) /\ (var_integrity >= 0)

\* the condition of the while loop of model()
LoopCondition ==
    (var_energy > 0) /\ (var_tegument > 0) /\ (var_integrity > 0)

\* a recompute that refreshes Integrity's deficit, cue and motivation only
DeriveIntegrityOnly(e, t, i, s, mean0) ==
    \E ci \in {get_mean_normalized(s, 8, MIN_DIST, MAX_DIST, mean0)} :
        /\ def_integrity' = One - i
        /\ cue_integrity' = ci
        /\ mot_integrity' = Motivation(One - i, ci)
        /\ UNCHANGED <<def_energy, def_tegument, cue_energy, cue_tegument,
                       mot_energy, mot_tegument>>

\* compute_deficit(); compute_cues(); compute_motivations(), for the need
\* values e, t, i and the frame s, mean0 the garbage compute_cues starts from
Derive(e, t, i, s, mean0) ==
    \E ci \in {get_mean_normalized(s, 8, MIN_DIST, MAX_DIST, mean0)} :
        /\ def_energy' = One - e
        /\ def_tegument' = One - t
        /\ def_integrity' = One - i
        /\ cue_energy' = CueEnergy
        /\ cue_tegument' = CueTegument
        /\ cue_integrity' = ci
        /\ mot_energy' = Motivation(One - e, CueEnergy)
        /\ mot_tegument' = Motivation(One - t, CueTegument)
        /\ mot_integrity' = Motivation(One - i, ci)

\* stop_moving(): kh4_set_speed(0, 0), then the idle mode
stop_moving ==
    /\ motor' = StopCommand
    /\ mode' = "idle"
    /\ stops' = Min(stops + 1, MaxStops)

\* main() with -m: model() begins: iterator = 0; get_sensors();
ModelStart ==
    /\ pc = "start"
    /\ argv1 = "-m"
    /\ iterator' = 0
    /\ sensors' = Frame(0)
    /\ all_mid' = (RawAt(scenario, 0) = MidFrame)
    /\ pc' = "loop"
    /\ UNCHANGED <<ticks, needs, derived, tasks, prev_sensors, speed, circ_speed,
                   wheels, pending, phase, behaviral, actuation, tickghost,
                   launch, fn>>

\* main() with -r: display_battery(), then run() begins
RunStart ==
    /\ pc = "start"
    /\ argv1 = "-r"
    /\ pc' = "run"
    /\ UNCHANGED <<ticks, iterator, needs, derived, tasks, tables, wheels, pending,
                   phase, behaviral, actuation, tickghost, env, fn>>

\* one pass of the loop of run(): scanf leaves a key in ctrl, the one read or,
\* at the end of the input, the one of the pass before, and its case runs
RunKey ==
    /\ pc = "run"
    /\ \E key \in Keys :
         /\ pc' = IF key = "a" THEN "exit" ELSE "run"
         /\ IF key \in {"z", "q", "s", "d"}
            THEN /\ moves' = <<KeyMove(key)>>
                 /\ motor' = MotorOf(KeyMove(key))
                 /\ mode' = "speed"
                 /\ stops' = stops
            ELSE IF key \in {"e", "a"}
            THEN moves' = <<>> /\ stop_moving
            ELSE moves' = <<>> /\ UNCHANGED <<motor, mode, stops>>
    /\ UNCHANGED <<ticks, iterator, needs, derived, tasks, tables, wheels, pending,
                   phase, behaviral, deaths, tickghost, env, fn>>

\* main() with any other argument: stop_moving()
MainStop ==
    /\ pc = "start"
    /\ argv1 \notin {"-m", "-r"}
    /\ stop_moving
    /\ pc' = "exit"
    /\ UNCHANGED <<ticks, iterator, needs, derived, tasks, tables, wheels, pending,
                   phase, behaviral, moves, deaths, tickghost, env, fn>>

\* a decay that also erodes integrity
DecayedWithIntegrity == <<var_energy - DecayEnergy, var_tegument - DecayTegument,
                          var_integrity - DecayTegument>>

\* decrease_physoligical_variables()
Decayed == <<var_energy - DecayEnergy, var_tegument - DecayTegument, var_integrity>>

\* a loop iteration begins: iterator++; update_vars(1) up to the first
\* induce_damage call of circ_damage
TickBegin ==
    /\ pc = "loop"
    /\ LoopCondition
    /\ ticks' = ticks + 1
    /\ iterator' = iterator + 1
    /\ var_energy' = Decayed[1]
    /\ var_tegument' = Decayed[2]
    /\ var_integrity' = Decayed[3]
    /\ sensors' = Frame(ticks + 1)
    /\ all_mid' = (all_mid /\ RawAt(scenario, ticks + 1) = MidFrame)
    /\ circ_speed' = CircTable(circ_speed, sensors', prev_sensors)
    /\ pending' = [k \in 1..7 |-> circ_speed'[k - 1]]
    /\ phase' = "circ"
    /\ pc' = "induce"
    /\ e0' = var_energy /\ t0' = var_tegument /\ i0' = var_integrity
    /\ induced' = 0 /\ speed_ret' = -1 /\ speed_calls' = 0
    /\ check_ret' = -1
    /\ UNCHANGED <<derived, tasks, prev_sensors, speed, wheels, behaviral,
                   actuation, launch, fn>>

\* what the stack slot of `mean` holds from the previous get_mean_normalized
\* call: nothing yet at the first call of a run
StackMean ==
    IF pc = "induce" /\ ticks = 1 /\ phase = "circ" /\ Len(pending) = 7 THEN 0
    ELSE PrevMean(cue_integrity)

\* an induce_damage that creates its thread without testing the flag
InduceDamageAlwaysSpawns ==
    /\ pc = "induce"
    /\ pending # <<>>
    /\ pending' = Tail(pending)
    /\ pc' = IF Tail(pending) # <<>> THEN "induce"
             ELSE IF phase = "circ" /\ CircReturn = 0 THEN "speed" ELSE "finish"
    /\ \E mean0 \in Garbage(Leftover(One - (var_integrity - DamageOf(Head(pending)))),
                            StackMean) :
         /\ var_integrity' = var_integrity - DamageOf(Head(pending))
         /\ Derive(var_energy, var_tegument, var_integrity', sensors, mean0)
    /\ induced' = induced + DamageOf(Head(pending))
    /\ speed_calls' = IF phase = "speed" THEN speed_calls + 1 ELSE speed_calls
    /\ created' = Min(created + 1, MaxTasks)
    /\ check_ret' = IF pc' = "finish" THEN CheckIfDamage(CircReturn, speed_ret)
                    ELSE check_ret
    /\ UNCHANGED <<ticks, iterator, var_energy, var_tegument, secure_led_animation,
                   running, tables, wheels, phase, behaviral, actuation,
                   e0, t0, i0, speed_ret, env, fn>>

\* one call induce_damage(level): the subtraction, update_vars(0), and the
\* test of the flag with pthread_create
InduceDamage ==
    /\ pc = "induce"
    /\ pending # <<>>
    /\ pending' = Tail(pending)
    /\ pc' = IF Tail(pending) # <<>> THEN "induce"
             ELSE IF phase = "circ" /\ CircReturn = 0 THEN "speed" ELSE "finish"
    /\ \E mean0 \in Garbage(Leftover(One - (var_integrity - DamageOf(Head(pending)))),
                            StackMean) :
         /\ var_integrity' = var_integrity - DamageOf(Head(pending))
         /\ Derive(var_energy, var_tegument, var_integrity', sensors, mean0)
    /\ induced' = induced + DamageOf(Head(pending))
    /\ speed_calls' = IF phase = "speed" THEN speed_calls + 1 ELSE speed_calls
    /\ created' = IF secure_led_animation = 0
                  THEN Min(created + 1, MaxTasks) ELSE created
    /\ check_ret' = IF pc' = "finish" THEN CheckIfDamage(CircReturn, speed_ret)
                    ELSE check_ret
    /\ UNCHANGED <<ticks, iterator, var_energy, var_tegument, secure_led_animation,
                   running, tables, wheels, phase, behaviral, actuation,
                   e0, t0, i0, speed_ret, env, fn>>

\* speed_damage() up to its first induce_damage call, or to its return; the
\* register get_mean_normalized_f starts from holds a positive finite value
SpeedDamage ==
    /\ pc = "speed"
    /\ phase' = "speed"
    /\ speed' = SpeedTable(speed, sensors, prev_sensors)
    /\ \E mean0 \in Garbage(GarbageMag * MeanOne, StackMean) :
         IF SpeedMeanHigh(speed', mean0)
         THEN /\ speed_ret' = 1
              /\ pending' = SpeedLevels(speed', 0)
              /\ pc' = IF pending' # <<>> THEN "induce" ELSE "finish"
         ELSE /\ speed_ret' = 0
              /\ pending' = <<>>
              /\ pc' = "finish"
    /\ check_ret' = IF pc' = "finish" THEN CheckIfDamage(CircReturn, speed_ret')
                    ELSE check_ret
    /\ UNCHANGED <<ticks, iterator, needs, derived, tasks, prev_sensors, sensors,
                   circ_speed, wheels, behaviral, actuation, e0, t0, i0, induced,
                   speed_calls, env, fn>>

\* a get_sensors_history that copies nothing
get_sensors_history_none(s, ps) == ps

\* get_sensors_history(): prev_sensors[i] = sensors[i] for the 8 channels
get_sensors_history(s, ps) == s

\* the iteration from the end of update_vars(1) to move(left_speed,right_speed):
\* compute_deficit, compute_cues, compute_motivations, winner_takes_all,
\* compute_speed, move. With iterator == 3 print_vars() comes next, whose
\* system("clear") waits for a child process; otherwise the iteration ends
\* here with get_sensors_history and usleep
TickEnd ==
    /\ pc = "finish"
    /\ IF iterator = 3
       THEN pc' = "print" /\ prev_sensors' = prev_sensors
       ELSE pc' = "loop" /\ prev_sensors' = get_sensors_history(sensors, prev_sensors)
    /\ \E mean0 \in Garbage(Leftover(One - var_integrity), StackMean) :
         Derive(var_energy, var_tegument, var_integrity, sensors, mean0)
    /\ behaviral' = winner_takes_all(mot_energy', mot_tegument', mot_integrity')
    /\ var_energy' = EnergyAfter(behaviral', var_energy)
    /\ left_speed' = WheelsAfter(behaviral', left_speed, right_speed, sensors)[1]
    /\ right_speed' = WheelsAfter(behaviral', left_speed, right_speed, sensors)[2]
    /\ moves' = TickMoves(behaviral', left_speed, right_speed, sensors)
    /\ motor' = MotorOf(moves'[Len(moves')])
    /\ mode' = "speed"
    /\ UNCHANGED <<ticks, iterator, var_tegument, var_integrity, tasks, sensors,
                   speed, circ_speed, pending, phase, stops, deaths, tickghost,
                   env, fn>>

\* print_vars() and print_clean_sensor() have returned: iterator = 0;
\* get_sensors_history(); usleep(TIME)
PrintVars ==
    /\ pc = "print"
    /\ iterator' = 0
    /\ prev_sensors' = get_sensors_history(sensors, prev_sensors)
    /\ pc' = "loop"
    /\ UNCHANGED <<ticks, needs, derived, tasks, sensors, speed, circ_speed,
                   wheels, pending, phase, behaviral, actuation, tickghost, env, fn>>

\* the loop ends: stop_moving()
StopMoving ==
    /\ pc = "loop"
    /\ ~LoopCondition
    /\ stop_moving
    /\ pc' = "death"
    /\ UNCHANGED <<ticks, iterator, needs, derived, tasks, tables, wheels, pending,
                   phase, behaviral, moves, deaths, tickghost, env, fn>>

\* death_animation() is called: it sets the LEDs and sleeps, 37 times
DeathAnimation ==
    /\ pc = "death"
    /\ deaths' = deaths + 1
    /\ pc' = "dying"
    /\ UNCHANGED <<ticks, iterator, needs, derived, tasks, tables, wheels, pending,
                   phase, behaviral, moves, motor, mode, stops, tickghost, env, fn>>

\* death_animation() returns, then model() returns 0
ModelReturn ==
    /\ pc = "dying"
    /\ pc' = "done"
    /\ UNCHANGED <<ticks, iterator, needs, derived, tasks, tables, wheels, pending,
                   phase, behaviral, actuation, tickghost, env, fn>>

\* the threads run until main() returns, which ends the process
Alive == pc \notin {"done", "exit"}

\* one thread fewer than n, a count kept up to max: n - 1, or still max or more
OneFewer(n, max) == IF n = max THEN {n, n - 1} ELSE {n - 1}

\* a created damage_animation thread runs its first statement
AnimStart ==
    /\ Alive
    /\ created > 0
    /\ created' \in OneFewer(created, MaxTasks)
    /\ running' = Min(running + 1, MaxRunning)
    /\ secure_led_animation' = 1
    /\ UNCHANGED <<pc, ticks, iterator, needs, derived, tables, wheels, pending,
                   phase, behaviral, actuation, tickghost, env, fn>>

\* a running damage_animation thread runs its last statement
AnimEnd ==
    /\ Alive
    /\ running > 0
    /\ running' \in OneFewer(running, MaxRunning)
    /\ secure_led_animation' = 0
    /\ UNCHANGED <<pc, ticks, iterator, needs, derived, created, tables, wheels,
                   pending, phase, behaviral, actuation, tickghost, env, fn>>

Next ==
    \/ ModelStart
    \/ RunStart
    \/ RunKey
    \/ MainStop
    \/ TickBegin
    \/ InduceDamage
    \/ SpeedDamage
    \/ TickEnd
    \/ PrintVars
    \/ StopMoving
    \/ DeathAnimation
    \/ ModelReturn
    \/ AnimStart
    \/ AnimEnd

Spec == Init /\ [][Next]_vars

\* the steps of the thread that runs model()
ControlLoop ==
    \/ ModelStart
    \/ TickBegin
    \/ InduceDamage
    \/ SpeedDamage
    \/ TickEnd
    \/ PrintVars
    \/ StopMoving
    \/ DeathAnimation
    \/ ModelReturn

\* model() makes its next step whenever it has one: it only sleeps, for TIME or
\* for the animation time, and waits for no thread. run() waits for a key and
\* the damage_animation threads for the scheduler, with no such guarantee
SpecLive == Init /\ [][Next]_vars /\ WF_vars(ControlLoop)

\* ------------------------------------------------------------ pure functions
\* SpecFn applies winner_takes_all and the sensor scaling to inputs drawn from
\* bounded sets; the program state stays as initialized.
MotSamples == (0..MaxMot) \cup {NaNv}

FnInputs ==
    {[f |-> "wta", a |-> <<m1, m2, m3>>] :
        m1 \in MotSamples, m2 \in MotSamples, m3 \in MotSamples}
    \cup {[f |-> "sensor", a |-> <<raw>>] : raw \in 0..(MAX_DIST + RawOver)}

InitFn ==
    /\ InitProgram
    /\ argv1 = "-m"
    /\ scenario = "Q"
    /\ char_signed = FALSE
    /\ fn_arg \in FnInputs
    /\ fn_res = <<>>

ApplyWinner ==
    /\ fn_arg.f = "wta"
    /\ fn_res = <<>>
    /\ fn_res' = <<winner_takes_all(fn_arg.a[1], fn_arg.a[2], fn_arg.a[3])>>
    /\ UNCHANGED <<pc, ticks, iterator, needs, derived, tasks, tables, wheels,
                   pending, phase, behaviral, actuation, tickghost, env, fn_arg>>

ApplySensor ==
    /\ fn_arg.f = "sensor"
    /\ fn_res = <<>>
    /\ fn_res' = <<ScaleSensor(fn_arg.a[1])>>
    /\ UNCHANGED <<pc, ticks, iterator, needs, derived, tasks, tables, wheels,
                   pending, phase, behaviral, actuation, tickghost, env, fn_arg>>

NextFn ==
    \/ ApplyWinner
    \/ ApplySensor

SpecFn == InitFn /\ [][NextFn]_vars

\* ------------------------------------------------------------ claims

\* C1: at most one damage-feedback task is in flight at any time: a second
\* induce_damage call made before the first call's task has finished creates
\* no second task.
C1_AtMostOneFeedbackTask == created + running <= 1

\* C2: at every loop check the loop goes on to a further full update exactly
\* when Energy, Tegument and Integrity are all > 0, and otherwise moves to the
\* termination sequence and starts no further update (a need of exactly 0
\* terminates).
AllNeedsPositive == var_energy > 0 /\ var_tegument > 0 /\ var_integrity > 0

C2_LoopRunsIffAllNeedsPositive ==
    [][/\ (pc = "loop" /\ pc' # "loop") =>
            IF AllNeedsPositive
            THEN pc' = "induce" /\ ticks' = ticks + 1
            ELSE pc' = "death" /\ ticks' = ticks
       /\ pc \in {"death", "dying", "done"} =>
            pc' \in {"death", "dying", "done"} /\ ticks' = ticks]_vars

\* C2 witness: the loop has ended on an Energy variable of exactly 0
C2_Witness == pc = "done" /\ var_energy = 0 /\ var_integrity > 0

\* C3: termination issues exactly one stop command, then exactly one
\* termination signal; from the stop on the motors hold the zero command and
\* no further iteration or move happens.
C3_StopThenSignalOnce ==
    /\ [](argv1 = "-m" =>
            /\ pc \notin {"death", "dying", "done"} => stops = 0 /\ deaths = 0
            /\ pc = "death" => stops = 1 /\ deaths = 0
            /\ pc \in {"dying", "done"} => stops = 1 /\ deaths = 1
            /\ stops >= 1 => motor = <<0, 0>>)
    /\ [][(argv1 = "-m" /\ stops >= 1) =>
            /\ moves' = moves /\ motor' = motor /\ ticks' = ticks
            /\ stops' = stops /\ deaths' \in {deaths, 1}]_vars

\* C3 witness: the run has ended, stopped and signalled
C3_Witness == pc = "done" /\ stops = 1 /\ deaths = 1 /\ motor = <<0, 0>>

\* C4: winner_takes_all returns the one need whose motivation is strictly
\* greater than both others, and -1 when the maximum is shared.
Max3(m) == CHOOSE x \in {m[1], m[2], m[3]} : \A y \in {m[1], m[2], m[3]} : x >= y

Winners(m) == {k \in 1..3 : m[k] = Max3(m)}

C4_StrictMaximumWins ==
    (fn_arg # <<>> /\ fn_arg.f = "wta" /\ fn_res # <<>>
        /\ \A k \in 1..3 : fn_arg.a[k] # NaNv)
    => fn_res[1] = IF Cardinality(Winners(fn_arg.a)) = 1
                   THEN CHOOSE k \in Winners(fn_arg.a) : TRUE
                   ELSE -1

\* C4 witness: the three-way tie (1,1,1) was arbitrated and gave None
C4_Witness ==
    fn_arg # <<>> /\ fn_arg.f = "wta" /\ fn_arg.a = <<1, 1, 1>> /\ fn_res = <<-1>>

\* C5: sensor refresh maps raw < MIN_DIST to 0, MIN_DIST <= raw <= MAX_DIST to
\* (raw - MIN_DIST)/2 and raw > MAX_DIST to the value of raw = MAX_DIST, so a
\* stored channel value lies in [0, (MAX_DIST - MIN_DIST)/2].
C5_SensorClamp ==
    (fn_arg # <<>> /\ fn_arg.f = "sensor" /\ fn_res # <<>>)
    => LET raw == fn_arg.a[1]
       IN  /\ fn_res[1] = IF raw < MIN_DIST THEN 0
                          ELSE IF raw > MAX_DIST THEN (MAX_DIST - MIN_DIST) \div 2
                          ELSE (raw - MIN_DIST) \div 2
           /\ fn_res[1] >= 0
           /\ fn_res[1] <= (MAX_DIST - MIN_DIST) \div 2

\* C6: in a tick whose arbitration selected Energy or Tegument, the last
\* velocity command sent before the sleep is the approach command (0.8, 0.8).
C6_ApproachCommandEmitted ==
    (pc = "loop" /\ ticks >= 1 /\ behaviral \in {1, 2})
    => /\ moves[Len(moves)] = <<(8 * VelOne) \div 10, (8 * VelOne) \div 10>>
       /\ motor = <<(8 * SPEED) \div 10, (8 * SPEED) \div 10>>

\* C7: in a tick whose arbitration returned None, the last velocity command
\* sent before the sleep is (0, 0), and the loop is not stopped by it.
C7_TieStopsWheels ==
    (pc = "loop" /\ ticks >= 1 /\ behaviral = -1)
    => /\ moves # <<>>
       /\ moves[Len(moves)] = <<0, 0>>
       /\ motor = <<0, 0>>
       /\ stops = 0 /\ deaths = 0

\* C7 witness: a tick ended with arbitration None
C7_Witness == pc = "loop" /\ ticks >= 1 /\ behaviral = -1 /\ motor = <<0, 0>>

\* C8: after 10 full cycles on a constant mid-range frame Energy is 0.96,
\* Tegument 0.985 and Integrity still 1.0.
C8_ConstantFrameNoErosion ==
    (pc = "loop" /\ ticks = 10 /\ all_mid)
    => /\ var_energy = (One \div 100) * 96
       /\ var_tegument = (One \div 1000) * 985
       /\ var_integrity = One

\* C9: in a cycle where channel 3 moved by more than 5% of MAX_DIST - MIN_DIST
\* the speed heuristic reports damage and induces damage once (for channel 3),
\* and the one feedback task of that cycle is the one this call creates.
Spike3 == 100 * Abs(sensors[3] - prev_sensors[3]) > 5 * (MAX_DIST - MIN_DIST)

SpikeCycle ==
    /\ pc \in {"induce", "speed", "finish"}
    /\ Spike3 /\ \A i \in Chan \ {3} : sensors[i] = prev_sensors[i]

C9_SpikeInducesDamageOnce ==
    /\ []((pc = "finish" /\ SpikeCycle) => speed_ret = 1 /\ speed_calls = 1)
    /\ [][(SpikeCycle /\ created' > created) =>
            phase = "speed" /\ speed_calls = 0]_vars

\* C10: over one full cycle Energy falls by exactly 0.004 and Tegument by
\* exactly 0.0015; Integrity falls by exactly what induce_damage was handed,
\* so it is unchanged in a cycle that induces no damage.
C10_PassiveDecayOnly ==
    ticks >= 1 =>
        /\ var_energy = e0 - (One \div 1000) * 4
        /\ var_tegument = t0 - (One \div 10000) * 15
        /\ var_integrity = i0 - induced
        /\ induced = 0 => var_integrity = i0

\* C10 witness: a full cycle has ended in which no damage was induced
C10_Witness ==
    pc = "loop" /\ ticks >= 1 /\ induced = 0 /\ var_energy = e0 - (One \div 1000) * 4

\* a step that is one induce_damage call
InduceStep == pc = "induce" /\ pending # <<>> /\ pending' = Tail(pending)

\* C11 as stated: induce_damage(magnitude) subtracts magnitude*0.01 from
\* Integrity and leaves the Energy and Tegument variables, deficits, cues and
\* motivations as they were immediately before the call.
C11_InduceDamageTouchesIntegrityOnly ==
    [][InduceStep =>
        /\ var_integrity' = var_integrity - DamageOf(Head(pending))
        /\ UNCHANGED <<var_energy, var_tegument, def_energy, def_tegument,
                       cue_energy, cue_tegument, mot_energy, mot_tegument>>]_vars

\* C11 amended: induce_damage(magnitude) subtracts magnitude*0.01 from
\* Integrity, leaves the Energy and Tegument variables unchanged, and recomputes
\* the deficit, cue and motivation of all three needs from the current
\* variables: deficit = 1 - variable, Energy cue 0.06, Tegument cue 0.055,
\* motivation = deficit + deficit*cue.
C11_InduceDamageRecomputesAll ==
    [][InduceStep =>
        /\ var_integrity' = var_integrity - DamageOf(Head(pending))
        /\ UNCHANGED <<var_energy, var_tegument>>
        /\ def_energy' = One - var_energy'
        /\ def_tegument' = One - var_tegument'
        /\ def_integrity' = One - var_integrity'
        /\ cue_energy' = (6 * CueOne) \div 100
        /\ cue_tegument' = (55 * CueOne) \div 1000
        /\ mot_energy' = def_energy' + MulDiv(def_energy', cue_energy', CueOne)
        /\ mot_tegument' = def_tegument' + MulDiv(def_tegument', cue_tegument', CueOne)
        /\ mot_integrity' = Motivation(def_integrity', cue_integrity')]_vars

\* C11 witness: in the middle of the adjacency heuristic's calls Energy's
\* deficit already shows this cycle's decay, which it did not before the call
C11_Witness ==
    /\ pc = "induce" /\ Len(pending) < 7 /\ ticks >= 2
    /\ def_energy = One - var_energy
    /\ def_energy # One - e0

\* C12: an induce_damage call made while the busy flag is set creates no
\* feedback task and leaves the flag and the running tasks as they are, yet
\* subtracts its damage from Integrity; nothing is queued, so a task is created
\* only inside a call that found the flag clear, one per call.
C12_BusyCallDropped ==
    [][/\ (InduceStep /\ secure_led_animation # 0) =>
            /\ created' = created /\ running' = running
            /\ secure_led_animation' = secure_led_animation
            /\ var_integrity' = var_integrity - DamageOf(Head(pending))
       /\ created' > created =>
            InduceStep /\ secure_led_animation = 0 /\ created' = created + 1]_vars

\* C12 witness: between two induce_damage calls of a cycle the flag is set and
\* no thread waits to start, and Integrity has fallen by what the calls of the
\* cycle were handed
C12_Witness ==
    /\ pc = "induce" /\ Len(pending) < 7 /\ pending # <<>> /\ induced > 0
    /\ secure_led_animation = 1 /\ running = 1 /\ created = 0
    /\ var_integrity = i0 - induced

\* the order in which model() passes through one iteration
TickOrder ==
    {<<"start", "loop">>, <<"loop", "induce">>, <<"induce", "speed">>,
     <<"induce", "finish">>, <<"speed", "induce">>, <<"speed", "finish">>,
     <<"finish", "loop">>, <<"finish", "print">>, <<"print", "loop">>,
     <<"loop", "death">>, <<"death", "dying">>, <<"dying", "done">>}

\* C13: every iteration runs, once each and in this order: counter increment,
\* full update (decay, sensor refresh, damage check, then deficits, cues and
\* motivations), arbitration, dispatch, velocity command, snapshot of the
\* frame, sleep. The counter, the decay and the refresh happen only where an
\* iteration begins; the snapshot happens only where it ends, after the damage
\* check of that iteration, and copies the frame that iteration read; the
\* arbitration result is that of the motivations left by the update and the
\* command sent is that of the wheel speeds left by the dispatch.
C13_TickStepsInOrder ==
    /\ []((pc = "loop" /\ ticks >= 1) =>
            /\ sensors = Frame(ticks)
            /\ speed_ret # -1 /\ pending = <<>>
            /\ behaviral = winner_takes_all(mot_energy, mot_tegument, mot_integrity)
            /\ moves # <<>> /\ moves[Len(moves)] = <<left_speed, right_speed>>
            /\ motor = MotorOf(<<left_speed, right_speed>>)
            /\ prev_sensors = sensors)
    /\ [][argv1 = "-m" =>
          /\ pc' # pc => <<pc, pc'>> \in TickOrder
          /\ ticks' # ticks =>
                /\ pc = "loop" /\ pc' = "induce"
                /\ ticks' = ticks + 1 /\ iterator' = iterator + 1
                /\ var_energy' = var_energy - DecayEnergy
                /\ var_tegument' = var_tegument - DecayTegument
                /\ sensors' = Frame(ticks')
          /\ (pc = "loop" /\ pc' = "induce") => ticks' = ticks + 1
          /\ sensors' # sensors => pc \in {"start", "loop"}
          /\ var_tegument' # var_tegument => pc = "loop"
          /\ behaviral' # behaviral => pc = "finish"
          /\ moves' # moves => pc = "finish"
          /\ prev_sensors' # prev_sensors => pc \in {"finish", "print"}
          /\ (pc = "finish" /\ pc' # pc) =>
                /\ pc' = IF iterator = 3 THEN "print" ELSE "loop"
                /\ moves' # <<>> /\ ticks' = ticks
          /\ (pc \in {"finish", "print"} /\ pc' = "loop") =>
                /\ ticks' = ticks
                /\ prev_sensors' = sensors /\ sensors' = sensors]_vars

\* C13 witness: the third iteration has ended and the snapshot holds the
\* spike frame that iteration read
C13_Witness ==
    /\ pc = "loop" /\ ticks = 3 /\ scenario = "B"
    /\ prev_sensors = Frame(3) /\ prev_sensors[3] # prev_sensors[2]

\* a step in which winner_takes_all is called
ArbitrationStep == pc = "finish" /\ pc' # pc

\* C14: what arbitration reads is consistent: for each need the deficit is
\* 1 - variable, unclamped, and the motivation is deficit + deficit*cue, for
\* the variables and cues current at that moment, this cycle's integrity
\* erosion included; the result is that of these motivations.
C14_ArbitrationReadsConsistentState ==
    [][ArbitrationStep =>
        /\ var_integrity = i0 - induced
        /\ def_energy' = One - var_energy
        /\ def_tegument' = One - var_tegument
        /\ def_integrity' = One - var_integrity
        /\ mot_energy' = def_energy' + MulDiv(def_energy', cue_energy', CueOne)
        /\ mot_tegument' = def_tegument' + MulDiv(def_tegument', cue_tegument', CueOne)
        /\ (~IsSpecial(cue_integrity')) =>
              mot_integrity' = def_integrity' + MulDiv(def_integrity', cue_integrity', CueOne)
        /\ (cue_integrity' = NaNv) => mot_integrity' = NaNv
        /\ behaviral' = winner_takes_all(mot_energy', mot_tegument', mot_integrity')]_vars

\* C14 witness: arbitration has run on an Integrity variable that this cycle's
\* erosion made negative, with a deficit above 1
C14_Witness ==
    /\ pc = "loop" /\ ticks >= 1 /\ induced > 0 /\ var_integrity < 0
    /\ def_integrity = One - var_integrity /\ def_integrity > One
    /\ ~IsSpecial(cue_integrity)
    /\ mot_integrity = def_integrity + MulDiv(def_integrity, cue_integrity, CueOne)

\* C15: the partial update update_vars(0) changes no need variable, no sensor
\* frame and no speed table, and applying it again changes nothing: a call
\* induce_damage(0), which is update_vars(0) on unchanged variables, made right
\* after another induce_damage call leaves the deficits, cues and motivations
\* that call left.
C15_PartialUpdateIdempotent ==
    [][(InduceStep /\ Len(pending) < 7 /\ DamageOf(Head(pending)) = 0) =>
        /\ UNCHANGED <<var_energy, var_tegument, var_integrity>>
        /\ UNCHANGED <<prev_sensors, sensors, speed, circ_speed>>
        /\ UNCHANGED <<def_energy, def_tegument, def_integrity, cue_energy,
                       cue_tegument, cue_integrity, mot_energy, mot_tegument,
                       mot_integrity>>]_vars

\* the cues have been computed at least once
CuesComputed == ticks >= 1 /\ ~(pc = "induce" /\ ticks = 1 /\ Len(pending) = 7)

\* C16: after every cue computation Integrity's cue lies in [0, 1], whatever
\* frame the sensor refresh produced, Energy's cue is 0.06 and Tegument's cue
\* is 0.055.
C16_CuesInRange ==
    CuesComputed =>
        /\ cue_integrity >= 0 /\ cue_integrity <= CueOne
        /\ cue_energy = (6 * CueOne) \div 100
        /\ cue_tegument = (55 * CueOne) \div 1000

\* the adjacency heuristic found damage in this cycle: it handed induce_damage
\* a level above 0
CircFlagged == \E i \in Adj : circ_speed[i] > 0

\* C17: in every full cycle both damage heuristics run, whatever either
\* returns, and check_if_damage returns true exactly when at least one of the
\* two found damage.
C17_BothHeuristicsRunAndOr ==
    (pc = "finish") =>
        /\ phase = "speed" /\ speed_ret # -1
        /\ check_ret = IF CircFlagged \/ speed_ret = 1 THEN 1 ELSE 0

\* a step of a damage_animation thread
FeedbackStep == tasks' # tasks /\ pc' = pc /\ pending' = pending

\* C18: a feedback task touches nothing but the busy flag, and what the
\* control loop computes is determined by the raw frames alone, the same under
\* every scheduling of the feedback tasks: whenever the cues are recomputed
\* Integrity's cue is the normalized mean of the current frame.
C18_ScheduleIndependent ==
    [][/\ FeedbackStep =>
            UNCHANGED <<needs, derived, tables, wheels, behaviral, moves, motor>>
       /\ (InduceStep \/ ArbitrationStep) =>
            cue_integrity' = get_mean_normalized(sensors', 8, MIN_DIST, MAX_DIST, 0)]_vars

\* C19: every adjacency speed estimate is 0 or at most 4 times the base value
\* pi*ray/TIME, in every cycle, so the erosion the adjacency heuristic induces
\* in one cycle is at most that of 7 estimates of 4 times the base value.
C19_CircSpeedBounded ==
    /\ \A i \in Adj : circ_speed[i] >= 0 /\ circ_speed[i] <= 4 * CircBase
    /\ (phase = "circ" \/ pc = "speed") => induced <= 7 * DamageOf(4 * CircBase)

\* 1.0 / 0.004: the cycles Energy's decay alone allows
MaxCycles == One \div DecayEnergy

\* C20: every run of the control loop terminates: Energy falls by 0.004 in
\* every cycle and nothing replenishes it, so no run starts more than 250
\* cycles, and no need variable ever increases.
C20_LoopTerminates ==
    /\ (argv1 = "-m") ~> (pc = "done")
    /\ [](ticks <= MaxCycles /\ var_energy = One - ticks * DecayEnergy)
    /\ [][/\ var_energy' <= var_energy
          /\ var_tegument' <= var_tegument
          /\ var_integrity' <= var_integrity]_vars

\* C20 witness: a run on quiet sensors ended after exactly 250 cycles
C20_Witness == pc = "done" /\ ticks = One \div DecayEnergy /\ var_energy = 0

\* C21: arbitration never selects Tegument: at every arbitration Energy's
\* motivation is strictly greater than Tegument's, so winner_takes_all never
\* returns 2 and the tegument behaviour group is never dispatched.
C21_TegumentNeverWins ==
    /\ [](behaviral # 2)
    /\ [][ArbitrationStep =>
            /\ mot_energy' > mot_tegument' /\ mot_tegument' > 0
            /\ behaviral' # 2]_vars

\* C21 witness: an arbitration with a positive Tegument motivation was won by
\* Energy
C21_Witness ==
    /\ pc = "loop" /\ ticks >= 2 /\ behaviral = 1
    /\ mot_tegument > 0 /\ mot_energy > mot_tegument

\* the damage heuristics of the current cycle are running or have run
DamageDetection == pc \in {"induce", "speed", "finish"}

\* C22: at every damage detection, that of the first cycle included, the
\* previous frame is the frame of the sensor refresh just before the current
\* one, a frame that was read from the sensors; the previous frame changes
\* only in the snapshot that ends a cycle.
C22_PreviousFrameWasRead ==
    /\ [](DamageDetection =>
            /\ sensors = Frame(ticks)
            /\ prev_sensors = Frame(ticks - 1))
    /\ [][prev_sensors' # prev_sensors =>
            pc \in {"finish", "print"} /\ pc' = "loop" /\ prev_sensors' = sensors]_vars

====
